---- MODULE Spec2Model ----
(***************************************************************************)
(* The tool-binding lifecycle of code-execution-with-mcp:                  *)
(*   - scripts/ensure-wrappers.ts      (the freshness orchestrator)        *)
(*   - scripts/generate-mcp-wrappers.ts (the generator, run as a child)    *)
(*   - servers/client.js               (the client bridge)                 *)
(* Spec       : ensureWrappers calls, the generator child and the clock.   *)
(* SpecBridge : concurrent callMCPTool / getMCPClient calls.               *)
(***************************************************************************)
EXTENDS Integers, Sequences, FiniteSets, TLC

----------------------------------------------------------------------------
(* Bounds of the model *)

\* ensureWrappers calls made one after the other
MaxCalls == 2
\* steps of the clock
MaxTicks == 1
\* failures the environment injects: rejected awaits, kills, unreadable config
MaxFaults == 1
\* invocations of the bridge, which may all be in flight at once
MaxInvocations == 2

----------------------------------------------------------------------------
(* Configuration: .mcp.json *)

\* Object.keys(config.mcpServers), in file order
ServerNames == <<"a", "b">>
Servers == {ServerNames[i] : i \in 1..Len(ServerNames)}

\* the type fields of .mcp.json, by server name; "undefined" where the
\* descriptor has none
VARIABLE mcpServers

\* config.mcpServers[name].type
ServerType(name) ==
  IF name \in DOMAIN mcpServers THEN mcpServers[name] ELSE "undefined"

\* the configurations: "a" is a local subprocess server, declared with its
\* type or, as .mcp.json files commonly do, without; "b" is a remote server
Configs ==
  {[n \in Servers |-> IF n = "a" THEN type ELSE "http"] : type \in {"stdio", "undefined"}}

\* whether the server's initialize result carries instructions
HasInstructions(name) == name = "a"

STALE_THRESHOLD_MS == 7 * 24 * 60 * 60 * 1000
DayMs == 24 * 60 * 60 * 1000

\* what the clock may advance by in one step
TickSizes == {STALE_THRESHOLD_MS, STALE_THRESHOLD_MS + 1}

----------------------------------------------------------------------------
(* Tool catalogs, file names and file contents *)

\* a tool descriptor as listTools returns it; ver stands for its description
\* and schemas, name is the qualified name as a sequence of characters
Tool(n, v) == [name |-> n, ver |-> v]

\* the catalog every server offered when the earliest bindings were made
InitCatalog == << Tool(<<"x">>, 1), Tool(<<"y">>, 1) >>

\* a later catalog: tool x changed, tool y withdrawn, and a tool s__x added
\* whose name is that of x behind the last "__"
LaterCatalog == << Tool(<<"x">>, 2), Tool(<<"s", "_", "_", "x">>, 3) >>

\* the catalogs a server may offer: none of its tools, the initial ones, or
\* the later ones
Catalogs == { <<>>, InitCatalog, LaterCatalog }

\* what listTools may return for a server: the catalog of "a" changes from
\* one listing to the next, the catalog of "b" is stable
CatalogsOf(name) == IF name = "a" THEN Catalogs ELSE {InitCatalog}

\* positions i where s[i-1..i] = "__"
DunderEnds(s) == {i \in 2..Len(s) : s[i-1] = "_" /\ s[i] = "_"}

Max(S) == CHOOSE m \in S : \A k \in S : k <= m

\* tool.name.replace(/^.*__/, ''): the greedy match ends at the last "__"
ShortName(s) ==
  IF DunderEnds(s) = {} THEN s ELSE SubSeq(s, Max(DunderEnds(s)) + 1, Len(s))

\* `${short}.ts`
FileName(tool) == ShortName(tool.name) \o <<".ts">>

INDEX_TS == <<"index", ".ts">>
METADATA_JSON == <<".metadata", ".json">>
README_MD == <<"README", ".md">>

\* f.endsWith('.ts')
EndsWithTs(f) == Len(f) > 0 /\ f[Len(f)] = ".ts"

\* the text generateToolWrapper returns: a function of the server name and
\* the tool descriptor only
StubBytes(serverName, tool) ==
  [kind |-> "stub", server |-> serverName, tool |-> tool.name, ver |-> tool.ver]

\* tools.map(t => `export * from './${short}.js';`).join('\n')
IndexBytes(tools) ==
  [kind |-> "index", exports |-> [i \in 1..Len(tools) |-> ShortName(tools[i].name)]]

MetadataBytes(serverName, tools, generatedAt, startTime, instructions) ==
  [kind |-> "metadata", generatedAt |-> generatedAt, serverName |-> serverName,
   toolCount |-> Len(tools), generationDurationMs |-> generatedAt - startTime,
   hasInstructions |-> instructions]

ReadmeBytes(serverName) == [kind |-> "readme", server |-> serverName]

\* a file, as its bytes
File(bytes) == [bytes |-> bytes]

EmptyDir == << >>

\* fs.writeFile(path, bytes) into a directory listing
WriteFile_Mutant(dir, name, file) ==
  [f \in (DOMAIN dir) \cup {name} |-> IF f \in DOMAIN dir THEN dir[f] ELSE file]
WriteFile(dir, name, file) ==
  [f \in (DOMAIN dir) \cup {name} |-> IF f = name THEN file ELSE dir[f]]

RECURSIVE WriteStubs(_, _, _)
WriteStubs(dir, serverName, tools) ==
  IF tools = <<>> THEN dir
  ELSE WriteStubs(WriteFile(dir, FileName(Head(tools)),
                            File(StubBytes(serverName, Head(tools)))),
                  serverName, Tail(tools))

\* the directory a complete run at time `at` leaves behind in an empty
\* directory
CompleteDir(serverName, tools, at) ==
  LET readme == IF HasInstructions(serverName)
                THEN WriteFile(EmptyDir, README_MD, File(ReadmeBytes(serverName)))
                ELSE EmptyDir
  IN WriteFile(
       WriteFile(WriteStubs(readme, serverName, tools),
                 INDEX_TS, File(IndexBytes(tools))),
       METADATA_JSON,
       File(MetadataBytes(serverName, tools, at, at, HasInstructions(serverName))))

Null == [kind |-> "null"]
NullAge == [null |-> TRUE, ms |-> 0]
Age(ms) == [null |-> FALSE, ms |-> ms]

----------------------------------------------------------------------------
(* State *)

VARIABLES
  now,          \* Date.now(), in ms
  dirs,         \* the ./servers/<name> directories that exist
  files,        \* files[name]: the listing of ./servers/<name>, file name -> file
  opc,          \* where the ensureWrappers caller is: idle, generating, returned
  options,      \* the options of the current ensureWrappers call
  result,       \* the EnsureWrappersResult being built / returned
  gpc,          \* where the generator child process is
  gi,           \* index into Object.entries(servers) of the generator's loop
  tools,        \* generateWrappers: the catalog listTools returned
  ti,           \* generateWrappers: index of the tool loop
  instructions, \* generateWrappers: !!client._instructions
  startTime,    \* generateWrappers: startTime
  allSuccess,   \* main: allSuccess
  hasFailures,  \* main: hasFailures
  exitCode,     \* the child's exit code
  genOpen,      \* servers the generator holds a connected client for
  metaCatalog,  \* history: the catalog of the run that wrote .metadata.json
  pre,          \* history: dirs and files when the current call started
  attempt,      \* history: outcome of each server's attempt in the current call
  catalogSeen,  \* history: the catalog listed for each server in the current call
  introspected, \* history: connect/listTools requests made in the current call
  ncalls,       \* history: number of ensureWrappers calls started
  nticks,       \* history: number of clock steps
  nfaults,      \* history: number of failures injected so far
  hung,         \* the step the generator awaits never settles
  ended,        \* history: how runGeneration's promise resolved in the current call
  cut           \* history: servers whose attempt a timeout ended in the current call

genVars == <<gpc, gi, tools, ti, instructions, startTime, allSuccess,
             hasFailures, exitCode, genOpen>>
diskVars == <<dirs, files>>
histVars == <<metaCatalog, pre, attempt, catalogSeen, introspected, ncalls, nfaults>>
orchVars == <<opc, options, result>>
runVars == <<hung, ended, cut>>

----------------------------------------------------------------------------
(* ensure-wrappers.ts *)

MissingStatus(serverName) ==
  [serverName |-> serverName, exists |-> FALSE, metadata |-> Null,
   ageMs |-> NullAge, toolCount |-> 0]

\* checkWrapperStatus(serverName), reading the disk (d, f) at time t
checkWrapperStatus(serverName, d, f, t) ==
  IF serverName \notin d
  THEN MissingStatus(serverName)          \* readdir throws
  ELSE
    LET listing == DOMAIN f[serverName]
        hasIndex == INDEX_TS \in listing
        wrapperFiles == {n \in listing : EndsWithTs(n) /\ n # INDEX_TS}
        metadata == IF METADATA_JSON \in listing
                    THEN f[serverName][METADATA_JSON].bytes
                    ELSE Null
        ageMs == IF metadata # Null THEN Age(t - metadata.generatedAt)
                 ELSE NullAge
    IN IF ~hasIndex \/ wrapperFiles = {}
       THEN MissingStatus(serverName)
       ELSE [serverName |-> serverName, exists |-> TRUE, metadata |-> metadata,
             ageMs |-> ageMs, toolCount |-> Cardinality(wrapperFiles)]

\* for (const serverName of serverNames) result.servers.push(status)
CheckAll(d, f, t) ==
  [i \in 1..Len(ServerNames) |-> checkWrapperStatus(ServerNames[i], d, f, t)]

IsMissing(s) == ~s.exists
IsStale(s) == s.exists /\ ~s.ageMs.null /\ s.ageMs.ms > STALE_THRESHOLD_MS

missingServers(servers) == SelectSeq(servers, IsMissing)
staleServers(servers) == SelectSeq(servers, IsStale)

NamesOf(servers) == [i \in 1..Len(servers) |-> servers[i].serverName]

\* `Wrappers for ${name} are ${days} days old`
StaleWarning(s) ==
  [kind |-> "stale", server |-> s.serverName, days |-> s.ageMs.ms \div DayMs]

StaleWarnings(servers) ==
  [i \in 1..Len(staleServers(servers)) |-> StaleWarning(staleServers(servers)[i])]

\* 'Regeneration failed but using cached wrappers'
CachedWarning == [kind |-> "cached"]

\* `Failed to regenerate wrappers and no fallback available for: ...`
NoFallbackError(servers) == [kind |-> "nofallback", servers |-> NamesOf(servers)]

\* `Missing wrappers for: ...`
MissingError(servers) == [kind |-> "missing", servers |-> NamesOf(servers)]

\* 'Failed to read .mcp.json configuration'
ConfigError == [kind |-> "config"]

\* the values a caller can give options.regenerate
RegenerateOptions == {"undefined", "true", "false"}

\* const { regenerate = true } = options, preceded by a variant that ignores
\* the option
regenerate_Mutant(o) == TRUE
regenerate(o) == o.regenerate # "false"

\* options.regenerate, as a condition
optionsRegenerate(o) == o.regenerate = "true"

\* the condition of the `if` at line 182, preceded by a variant that
\* regenerates whenever regeneration is not disabled
ShouldRegenerate_Mutant(o, servers) ==
  regenerate(o)
ShouldRegenerate(o, servers) ==
  regenerate(o) /\ (missingServers(servers) # <<>>
                    \/ staleServers(servers) # <<>>
                    \/ optionsRegenerate(o))

EmptyResult ==
  [success |-> TRUE, servers |-> <<>>, regenerated |-> FALSE,
   warnings |-> <<>>, errors |-> <<>>]

\* lines 187-218: what ensureWrappers does with runGeneration's outcome
AfterGeneration(r, success, d, f, t) ==
  IF success
  THEN [r EXCEPT !.regenerated = TRUE, !.servers = CheckAll(d, f, t)]
  ELSE
    LET stillMissing == SelectSeq(r.servers, IsMissing)
    IN IF stillMissing # <<>>
       THEN [r EXCEPT !.regenerated = TRUE,
                      !.errors = Append(@, NoFallbackError(stillMissing)),
                      !.success = FALSE]
       ELSE [r EXCEPT !.regenerated = TRUE,
                      !.warnings = Append(@, CachedWarning)]

----------------------------------------------------------------------------
(* generate-mcp-wrappers.ts, as the child `npm run generate-wrappers --      *)
(* --fallback --timeout=...` that runGeneration spawns                       *)

\* args.includes('--fallback'): runGeneration always passes --fallback
fallbackMode == TRUE

\* createTransport(config): the transport variant, or "throw"
createTransport(type) ==
  IF type = "stdio" THEN "stdio"
  ELSE IF type = "http" THEN "http"
  ELSE "throw"

\* checkExistingWrappers(serverName)
checkExistingWrappers(serverName, d, f) ==
  IF serverName \notin d
  THEN FALSE
  ELSE LET listing == DOMAIN f[serverName]
           hasIndex == INDEX_TS \in listing
           hasWrappers == \E n \in listing : EndsWithTs(n) /\ n # INDEX_TS
       IN hasIndex /\ hasWrappers

CurrentServer == ServerNames[gi]

InAttempt == gpc \in {"connect", "list", "mkdir", "readme", "stub", "metadata", "close"}

\* generateWrappers' locals before a call of it
Locals == tools = <<>> /\ ti = 1 /\ instructions = FALSE /\ startTime = 0

\* generateWrappers returned or threw: its locals are gone
DropLocals == tools' = <<>> /\ ti' = 1 /\ instructions' = FALSE /\ startTime' = 0

\* the catch block of main's loop (lines 247-267), then the next iteration.
\* A failed write is taken to leave its target file as it was. It is preceded
\* by a variant in which the catch block leaves the loop.
Catch_Mutant ==
  /\ allSuccess' = FALSE
  /\ hasFailures' = (hasFailures \/ ~fallbackMode
                       \/ ~checkExistingWrappers(CurrentServer, dirs, files))
  /\ attempt' = [attempt EXCEPT ![CurrentServer] = "failed"]
  /\ gi' = Len(ServerNames) + 1
  /\ gpc' = "host"
  /\ DropLocals
  /\ UNCHANGED <<diskVars, exitCode, genOpen,
                 metaCatalog, pre, catalogSeen, ncalls, now, nticks, orchVars>>
Catch ==
  /\ allSuccess' = FALSE
  /\ hasFailures' = (hasFailures \/ ~fallbackMode
                       \/ ~checkExistingWrappers(CurrentServer, dirs, files))
  /\ attempt' = [attempt EXCEPT ![CurrentServer] = "failed"]
  /\ gi' = gi + 1
  /\ gpc' = "host"
  /\ DropLocals
  /\ UNCHANGED <<diskVars, exitCode, genOpen,
                 metaCatalog, pre, catalogSeen, ncalls, now, nticks, orchVars>>

\* an awaited step rejects (an error, or withTimeout's timer)
Throw ==
  /\ nfaults < MaxFaults
  /\ nfaults' = nfaults + 1
  /\ Catch

\* main: loadMCPConfig(); a failure ends in main().catch -> process.exit(1)
GenMain ==
  /\ ~hung /\ UNCHANGED runVars
  /\ opc = "generating" /\ gpc = "main"
  /\ \/ gpc' = "host" /\ UNCHANGED <<exitCode, nfaults>>
     \/ /\ nfaults < MaxFaults
        /\ nfaults' = nfaults + 1
        /\ gpc' = "exited"
        /\ exitCode' = 1
  /\ UNCHANGED <<gi, tools, ti, instructions, startTime, allSuccess, hasFailures,
                 genOpen, diskVars, metaCatalog, pre, attempt, catalogSeen, introspected,
                 ncalls, now, nticks, orchVars>>

\* generateWrappers, lines 70-74: startTime, createTransport
GenHost ==
  /\ ~hung /\ UNCHANGED runVars
  /\ opc = "generating" /\ gpc = "host" /\ gi <= Len(ServerNames)
  /\ IF createTransport(ServerType(CurrentServer)) = "throw"
     THEN Catch /\ UNCHANGED <<introspected, nfaults>>
     ELSE /\ startTime' = now
          /\ gpc' = "connect"
          /\ UNCHANGED <<gi, tools, ti, instructions, allSuccess, hasFailures,
                         exitCode, genOpen, diskVars, histVars, now, nticks, orchVars>>

\* lines 84-88: client.connect(transport) under withTimeout
GenConnect ==
  /\ ~hung /\ UNCHANGED runVars
  /\ opc = "generating" /\ gpc = "connect"
  /\ introspected' = introspected + 1
  /\ \/ /\ instructions' = HasInstructions(CurrentServer)
        /\ genOpen' = genOpen \cup {CurrentServer}
        /\ gpc' = "list"
        /\ UNCHANGED <<gi, tools, ti, startTime, allSuccess, hasFailures, exitCode,
                       diskVars, metaCatalog, pre, attempt, catalogSeen, ncalls,
                       nfaults, now, nticks, orchVars>>
     \/ Throw

\* lines 92-96: client.listTools() under withTimeout
GenListTools ==
  /\ ~hung /\ UNCHANGED runVars
  /\ opc = "generating" /\ gpc = "list"
  /\ introspected' = introspected + 1
  /\ \/ /\ \E cat \in CatalogsOf(CurrentServer) :
             /\ tools' = cat
             /\ catalogSeen' = [catalogSeen EXCEPT ![CurrentServer] = cat]
        /\ gpc' = "mkdir"
        /\ UNCHANGED <<gi, ti, instructions, startTime, allSuccess, hasFailures,
                       exitCode, genOpen, diskVars, metaCatalog, pre, attempt, ncalls,
                       nfaults, now, nticks, orchVars>>
     \/ Throw

\* lines 99-100: fs.mkdir(serverDir, { recursive: true })
GenMkdir ==
  /\ ~hung /\ UNCHANGED runVars
  /\ opc = "generating" /\ gpc = "mkdir"
  /\ \/ /\ dirs' = dirs \cup {CurrentServer}
        /\ gpc' = IF instructions THEN "readme" ELSE "stub"
        /\ ti' = 1
        /\ UNCHANGED <<files, gi, tools, instructions, startTime, allSuccess,
                       hasFailures, exitCode, genOpen, histVars, now, nticks, orchVars>>
     \/ Throw /\ UNCHANGED introspected

\* lines 106-119: the server's instructions, saved as README.md
GenWriteReadme ==
  /\ ~hung /\ UNCHANGED runVars
  /\ opc = "generating" /\ gpc = "readme"
  /\ \/ /\ files' = [files EXCEPT ![CurrentServer] =
                       WriteFile(@, README_MD, File(ReadmeBytes(CurrentServer))) ]
        /\ gpc' = "stub"
        /\ UNCHANGED <<dirs, gi, tools, ti, instructions, startTime, allSuccess,
                       hasFailures, exitCode, genOpen, histVars, now, nticks, orchVars>>
     \/ Throw /\ UNCHANGED introspected

\* the tool loop is over, preceded by a variant that does not wait for it
StubsDone_Mutant == TRUE
StubsDone == ti > Len(tools)

\* lines 121-128: one iteration of the tool loop: generateToolWrapper (which
\* may throw in compile) and fs.writeFile of the stub
GenWriteStub ==
  /\ ~hung /\ UNCHANGED runVars
  /\ opc = "generating" /\ gpc = "stub" /\ ~(ti > Len(tools))
  /\ \/ /\ files' = [files EXCEPT ![CurrentServer] =
                       WriteFile(@, FileName(tools[ti]),
                                 File(StubBytes(CurrentServer, tools[ti]))) ]
        /\ ti' = ti + 1
        /\ UNCHANGED <<dirs, gpc, gi, tools, instructions, startTime, allSuccess,
                       hasFailures, exitCode, genOpen, histVars, now, nticks, orchVars>>
     \/ Throw /\ UNCHANGED introspected

\* lines 130-135: index.ts, after the tool loop
GenWriteIndex ==
  /\ ~hung /\ UNCHANGED runVars
  /\ opc = "generating" /\ gpc = "stub" /\ StubsDone
  /\ \/ /\ files' = [files EXCEPT ![CurrentServer] =
                       WriteFile(@, INDEX_TS, File(IndexBytes(tools))) ]
        /\ gpc' = "metadata"
        /\ UNCHANGED <<dirs, gi, tools, ti, instructions, startTime, allSuccess,
                       hasFailures, exitCode, genOpen, histVars, now, nticks, orchVars>>
     \/ Throw /\ UNCHANGED introspected

\* lines 137-149: .metadata.json
GenWriteMetadata ==
  /\ ~hung /\ UNCHANGED runVars
  /\ opc = "generating" /\ gpc = "metadata"
  /\ \/ /\ files' = [files EXCEPT ![CurrentServer] =
                       WriteFile(@, METADATA_JSON,
                                 File(MetadataBytes(CurrentServer, tools, now,
                                                    startTime, instructions))) ]
        /\ gpc' = "close"
        /\ UNCHANGED <<dirs, gi, tools, ti, instructions, startTime, allSuccess,
                       hasFailures, exitCode, genOpen, pre, attempt, catalogSeen,
                       introspected, ncalls, nfaults, now, nticks, orchVars>>
        /\ metaCatalog' = [metaCatalog EXCEPT ![CurrentServer] = tools]
     \/ Throw /\ UNCHANGED introspected

\* line 151: client.close(), then back to main's loop
GenClose ==
  /\ ~hung /\ UNCHANGED runVars
  /\ opc = "generating" /\ gpc = "close"
  /\ \/ /\ genOpen' = genOpen \ {CurrentServer}
        /\ attempt' = [attempt EXCEPT ![CurrentServer] = "ok"]
        /\ gi' = gi + 1
        /\ gpc' = "host"
        /\ DropLocals
        /\ UNCHANGED <<diskVars, allSuccess,
                       hasFailures, exitCode, metaCatalog, pre, catalogSeen, introspected,
                       ncalls, nfaults, now, nticks, orchVars>>
     \/ Throw /\ UNCHANGED introspected

\* the operations generateWrappers awaits under withTimeout
UnderTimeout(pc) == pc \in {"connect", "list"}

\* the promise an awaited step of generateWrappers waits for never settles
GenHang ==
  /\ opc = "generating" /\ InAttempt /\ ~hung
  /\ nfaults < MaxFaults
  /\ nfaults' = nfaults + 1
  /\ hung' = TRUE
  /\ UNCHANGED <<genVars, diskVars, orchVars, metaCatalog, pre, attempt, catalogSeen,
                 introspected, ncalls, now, nticks, ended, cut>>

\* withTimeout's timer rejects with `Operation '...' timed out after ${ms}ms`
GenTimeout ==
  /\ opc = "generating" /\ hung /\ UnderTimeout(gpc)
  /\ hung' = FALSE
  /\ cut' = cut \cup {CurrentServer}
  /\ Catch
  /\ UNCHANGED <<introspected, nfaults, ended>>

\* lines 270-277, after the loop: process.exit(1), or main returns and the
\* process ends once its event loop is empty
GenEnd ==
  /\ ~hung /\ UNCHANGED runVars
  /\ opc = "generating" /\ gpc = "host" /\ gi > Len(ServerNames)
  /\ IF allSuccess \/ (fallbackMode /\ ~hasFailures)
     THEN gpc' = "ending" /\ exitCode' = exitCode
     ELSE gpc' = "exited" /\ exitCode' = 1
  /\ UNCHANGED <<gi, tools, ti, instructions, startTime, allSuccess, hasFailures,
                 genOpen, diskVars, histVars, now, nticks, orchVars>>

\* the process ends by itself with code 0
GenExit ==
  /\ ~hung /\ UNCHANGED runVars
  /\ opc = "generating" /\ gpc = "ending"
  /\ gpc' = "exited"
  /\ exitCode' = 0
  /\ genOpen' = {}
  /\ UNCHANGED <<gi, tools, ti, instructions, startTime, allSuccess, hasFailures,
                 diskVars, histVars, now, nticks, orchVars>>

----------------------------------------------------------------------------
(* ensureWrappers, as its caller sees it *)

\* no child process
NoChild ==
  /\ gpc = "none" /\ gi = 1 /\ Locals /\ allSuccess = TRUE /\ hasFailures = FALSE
  /\ exitCode = 0 /\ genOpen = {}

\* the child process is gone
DropChild ==
  /\ gpc' = "none" /\ gi' = 1 /\ DropLocals /\ allSuccess' = TRUE
  /\ hasFailures' = FALSE /\ exitCode' = 0 /\ genOpen' = {}

NoAttempt == [n \in Servers |-> "none"]
NoCatalog == [n \in Servers |-> <<>>]

\* agent.ts lines 85-89: the options of the call made at startup,
\* ensureWrappers({ regenerate: true, ... })
AgentOptions == [regenerate |-> "true"]

\* lines 124-224 up to the await of runGeneration: read .mcp.json, check every
\* server, warn about the stale ones, then spawn the child or return
EnsureStart ==
  /\ opc = "idle" /\ ncalls < MaxCalls
  /\ ncalls' = ncalls + 1
  /\ UNCHANGED <<hung, ended, cut>>
  /\ pre' = [dirs |-> dirs, files |-> files]
  /\ attempt' = NoAttempt
  /\ catalogSeen' = NoCatalog
  /\ introspected' = 0
  /\ \E o \in [regenerate : RegenerateOptions], configOk \in BOOLEAN :
       /\ options' = o
       /\ configOk \/ nfaults < MaxFaults
       /\ nfaults' = IF configOk THEN nfaults ELSE nfaults + 1
       /\ IF ~configOk
          THEN /\ result' = [EmptyResult EXCEPT !.errors = <<ConfigError>>,
                                               !.success = FALSE]
               /\ opc' = "returned"
               /\ UNCHANGED <<gpc, gi, allSuccess, hasFailures, metaCatalog>>
          ELSE
            LET servers == CheckAll(dirs, files, now)
                checked == [EmptyResult EXCEPT !.servers = servers,
                                               !.warnings = StaleWarnings(servers)]
            IN IF ShouldRegenerate(o, servers)
               THEN /\ result' = checked
                    /\ opc' = "generating"
                    /\ gpc' = "main"
                    /\ gi' = 1
                    /\ allSuccess' = TRUE
                    /\ hasFailures' = FALSE
                    /\ UNCHANGED metaCatalog
               ELSE /\ result' =
                         IF missingServers(servers) # <<>>
                         THEN [checked EXCEPT
                                 !.errors = <<MissingError(missingServers(servers))>>,
                                 !.success = FALSE]
                         ELSE checked
                    /\ opc' = "returned"
                    /\ UNCHANGED <<gpc, gi, allSuccess, hasFailures, metaCatalog>>
  /\ UNCHANGED <<tools, ti, instructions, startTime, exitCode, genOpen,
                 diskVars, now, nticks>>

\* runGeneration, child.on('close'): resolve({ success: code === 0 }), and
\* lines 188-218 of ensureWrappers
OrchClose ==
  /\ opc = "generating" /\ gpc = "exited"
  /\ result' = AfterGeneration(result, exitCode = 0, dirs, files, now)
  /\ opc' = "returned"
  /\ DropChild
  /\ ended' = "close"
  /\ UNCHANGED <<options, diskVars, histVars, now, nticks, hung, cut>>

\* runGeneration, the timer at timeoutMs + 5000: child.kill('SIGTERM') and
\* resolve({ success: false }); the child stops where it is
OrchTimeout ==
  /\ opc = "generating" /\ gpc \notin {"exited", "none"}
  /\ result' = AfterGeneration(result, FALSE, dirs, files, now)
  /\ opc' = "returned"
  /\ DropChild
  /\ attempt' = IF InAttempt THEN [attempt EXCEPT ![CurrentServer] = "killed"]
                ELSE attempt
  /\ hung \/ nfaults < MaxFaults
  /\ nfaults' = IF hung THEN nfaults ELSE nfaults + 1
  /\ hung' = FALSE
  /\ ended' = "timeout"
  /\ cut' = IF InAttempt THEN cut \cup {CurrentServer} ELSE cut
  /\ UNCHANGED <<options, diskVars, metaCatalog, pre, catalogSeen,
                 introspected, ncalls, now, nticks>>

\* runGeneration, child.on('error'): the child could not be started
OrchSpawnError ==
  /\ opc = "generating" /\ gpc = "main"
  /\ result' = AfterGeneration(result, FALSE, dirs, files, now)
  /\ opc' = "returned"
  /\ DropChild
  /\ nfaults < MaxFaults
  /\ nfaults' = nfaults + 1
  /\ ended' = "error"
  /\ UNCHANGED <<options, diskVars, metaCatalog, pre, attempt, catalogSeen,
                 introspected, ncalls, now, nticks, hung, cut>>

\* the caller takes the result; a later call may follow
EnsureReturn ==
  /\ opc = "returned"
  /\ opc' = "idle"
  /\ options' = [regenerate |-> "undefined"]
  /\ result' = EmptyResult
  /\ pre' = [dirs |-> dirs, files |-> files]
  /\ attempt' = NoAttempt
  /\ catalogSeen' = NoCatalog
  /\ introspected' = 0
  /\ ended' = "none"
  /\ cut' = {}
  /\ UNCHANGED <<genVars, diskVars, metaCatalog, ncalls, nfaults, now, nticks, hung>>

\* time passes between two calls (a generation run is short against a day)
Tick ==
  /\ opc = "idle"
  /\ nticks < MaxTicks
  /\ nticks' = nticks + 1
  /\ \E d \in TickSizes : now' = now + d
  /\ UNCHANGED <<orchVars, genVars, diskVars, histVars, runVars>>

----------------------------------------------------------------------------
(* JSON.parse, for texts without escapes, signs, fractions or exponents.    *)
(* A text is a sequence of characters.                                      *)

JNull == [t |-> "null"]
JBool(b) == [t |-> "boolean", bool |-> b]
JNum(n) == [t |-> "number", num |-> n]
JStr(chars) == [t |-> "string", str |-> chars]
JArr(elems) == [t |-> "array", elems |-> elems]
JObj(members) == [t |-> "object", members |-> members]

Digits == {"0", "1", "2", "3", "4", "5", "6", "7", "8", "9"}
DigitVal(c) ==
  CASE c = "0" -> 0 [] c = "1" -> 1 [] c = "2" -> 2 [] c = "3" -> 3
    [] c = "4" -> 4 [] c = "5" -> 5 [] c = "6" -> 6 [] c = "7" -> 7
    [] c = "8" -> 8 [] OTHER -> 9

Fail == [ok |-> FALSE]
Ok(v, i) == [ok |-> TRUE, v |-> v, i |-> i]

\* the first index at or after i that holds no white space
RECURSIVE SkipWs(_, _)
SkipWs(s, i) ==
  IF i <= Len(s) /\ s[i] \in {" ", "\t", "\n", "\r"} THEN SkipWs(s, i + 1) ELSE i

\* whether the characters of `word` stand at s[i..]
At(s, i, word) ==
  /\ i + Len(word) - 1 <= Len(s)
  /\ \A k \in 1..Len(word) : s[i + k - 1] = word[k]

\* a number without leading zeros, from s[i]
RECURSIVE ParseDigits(_, _, _)
ParseDigits(s, i, acc) ==
  IF i <= Len(s) /\ s[i] \in Digits
  THEN ParseDigits(s, i + 1, 10 * acc + DigitVal(s[i]))
  ELSE Ok(JNum(acc), i)

ParseNumber(s, i) ==
  IF s[i] = "0" THEN Ok(JNum(0), i + 1) ELSE ParseDigits(s, i, 0)

\* a string, s[i] being its opening quote
RECURSIVE ParseChars(_, _, _)
ParseChars(s, i, acc) ==
  IF i > Len(s) THEN Fail
  ELSE IF s[i] = "\"" THEN Ok(JStr(acc), i + 1)
  ELSE IF s[i] \in {"\\", "\n", "\t", "\r"} THEN Fail
  ELSE ParseChars(s, i + 1, Append(acc, s[i]))

RECURSIVE ParseValue(_, _)
RECURSIVE ParseElements(_, _, _)
RECURSIVE ParseMembers(_, _, _)

\* the elements of an array after its "[" or after a ","
ParseElements(s, i, acc) ==
  LET e == ParseValue(s, SkipWs(s, i))
  IN IF ~e.ok THEN Fail
     ELSE LET k == SkipWs(s, e.i)
          IN IF k > Len(s) THEN Fail
             ELSE IF s[k] = "," THEN ParseElements(s, k + 1, Append(acc, e.v))
             ELSE IF s[k] = "]" THEN Ok(JArr(Append(acc, e.v)), k + 1)
             ELSE Fail

\* the members of an object after its "{" or after a ","
ParseMembers(s, i, acc) ==
  LET k == SkipWs(s, i)
  IN IF k > Len(s) \/ s[k] # "\"" THEN Fail
     ELSE LET key == ParseChars(s, k + 1, <<>>)
          IN IF ~key.ok THEN Fail
             ELSE LET c == SkipWs(s, key.i)
                  IN IF c > Len(s) \/ s[c] # ":" THEN Fail
                     ELSE LET val == ParseValue(s, SkipWs(s, c + 1))
                          IN IF ~val.ok THEN Fail
                             ELSE LET n == SkipWs(s, val.i)
                                      m == Append(acc, <<key.v.str, val.v>>)
                                  IN IF n > Len(s) THEN Fail
                                     ELSE IF s[n] = "," THEN ParseMembers(s, n + 1, m)
                                     ELSE IF s[n] = "}" THEN Ok(JObj(m), n + 1)
                                     ELSE Fail

ParseValue(s, i) ==
  IF i > Len(s) THEN Fail
  ELSE IF At(s, i, <<"n", "u", "l", "l">>) THEN Ok(JNull, i + 4)
  ELSE IF At(s, i, <<"t", "r", "u", "e">>) THEN Ok(JBool(TRUE), i + 4)
  ELSE IF At(s, i, <<"f", "a", "l", "s", "e">>) THEN Ok(JBool(FALSE), i + 5)
  ELSE IF s[i] \in Digits THEN ParseNumber(s, i)
  ELSE IF s[i] = "\"" THEN ParseChars(s, i + 1, <<>>)
  ELSE IF s[i] = "[" THEN
         (IF SkipWs(s, i + 1) <= Len(s) /\ s[SkipWs(s, i + 1)] = "]"
          THEN Ok(JArr(<<>>), SkipWs(s, i + 1) + 1)
          ELSE ParseElements(s, i + 1, <<>>))
  ELSE IF s[i] = "{" THEN
         (IF SkipWs(s, i + 1) <= Len(s) /\ s[SkipWs(s, i + 1)] = "}"
          THEN Ok(JObj(<<>>), SkipWs(s, i + 1) + 1)
          ELSE ParseMembers(s, i + 1, <<>>))
  ELSE Fail

\* JSON.parse(text): the value, or ok = FALSE where JSON.parse throws
JSONParse(text) ==
  LET r == ParseValue(text, SkipWs(text, 1))
  IN IF r.ok /\ SkipWs(text, r.i) > Len(text) THEN [ok |-> TRUE, v |-> r.v] ELSE Fail

----------------------------------------------------------------------------
(* servers/client.js: the bridge the generated stubs call *)

\* the names a stub may pass: the configured servers and one more
UnknownServer == "zz"
BridgeNames == Servers \cup {UnknownServer}

\* the invocations, numbered in the order they are made
Callers == 1..MaxInvocations

\* texts a tool may answer with
TextObject == <<"{", "\"", "a", "\"", ":", "1", "}">>
TextPlain == <<"n", "o", "t", " ", "j", "s", "o", "n">>
TextEmpty == <<>>
TextTruncated == <<"{", "\"", "a", "\"", ":", "1">>
TextBoom == <<"b", "o", "o", "m">>
Texts == {TextObject, TextPlain, TextEmpty, TextTruncated}

TextItem(text) == [type |-> "text", text |-> text]
ImageItem == [type |-> "image", data |-> <<"d">>]

\* what client.callTool can resolve with
Responses ==
  {[content |-> <<TextItem(t)>>] : t \in Texts}
    \cup {[content |-> <<>>],
          [content |-> <<ImageItem, TextItem(TextObject)>>],
          [toolResult |-> <<"o", "k">>],
          [content |-> <<TextItem(TextBoom)>>, isError |-> TRUE],
          [content |-> <<TextItem(TextObject)>>, isError |-> TRUE]}

NoResponse == [none |-> TRUE]

\* the result object itself, as a value callMCPTool returns
Envelope(callResult) == [t |-> "envelope", env |-> callResult]
\* a Client, as a value getMCPClient returns
ClientValue(handle) == [t |-> "client", handle |-> handle]

Return(value) == [kind |-> "return", value |-> value]
Rejected(error) == [kind |-> "throw", error |-> error]
Pending == [kind |-> "pending"]

\* what callMCPTool returns for the result callTool resolved with, preceded
\* by a variant that hands an empty text to JSON.parse
DecodeResult_Mutant(callResult) ==
  IF "content" \in DOMAIN callResult /\ Len(callResult.content) >= 1
  THEN LET content == callResult.content[1]
       IN IF "text" \in DOMAIN content
          THEN IF JSONParse(content.text).ok
               THEN JSONParse(content.text).v
               ELSE JStr(content.text)
          ELSE Envelope(callResult)
  ELSE Envelope(callResult)
DecodeResult(callResult) ==
  IF "content" \in DOMAIN callResult /\ Len(callResult.content) >= 1
  THEN LET content == callResult.content[1]
       IN IF "text" \in DOMAIN content /\ content.text # <<>>
          THEN IF JSONParse(content.text).ok
               THEN JSONParse(content.text).v
               ELSE JStr(content.text)
          ELSE Envelope(callResult)
  ELSE Envelope(callResult)

\* the transport connectToMCPServer builds for a descriptor type
BridgeTransport(type) == IF type = "http" THEN "http" ELSE "stdio"

VARIABLES
  mcpClients,   \* the module's Map: server name -> index into clients
  clients,      \* every Client made so far, with its transport and state
  bpc,          \* where each caller's invocation stands
  fn,           \* the function each caller invoked
  serverName,   \* its serverName argument
  client,       \* its local variable client (0: not yet assigned)
  response,     \* what callTool resolved with
  outcome       \* how the invocation settled

bridgeVars == <<mcpClients, clients, bpc, fn, serverName, client, response,
                outcome>>

Unassigned == [t |-> "undefined"]

BridgeInit ==
  /\ mcpClients = <<>>
  /\ clients = <<>>
  /\ bpc = [c \in Callers |-> "idle"]
  /\ fn = [c \in Callers |-> "none"]
  /\ serverName = [c \in Callers |-> UnknownServer]
  /\ client = [c \in Callers |-> Unassigned]
  /\ response = [c \in Callers |-> NoResponse]
  /\ outcome = [c \in Callers |-> Pending]

\* mcpClients.set(name, handle)
MapSet(map, name, handle) ==
  [n \in DOMAIN map \cup {name} |-> IF n = name THEN handle ELSE map[n]]

\* client.callTool(...) is sent, or getMCPClient returns its client
AfterClient(c, handle) ==
  IF fn[c] = "callMCPTool"
  THEN /\ bpc' = [bpc EXCEPT ![c] = "callTool"]
       /\ outcome' = outcome
  ELSE /\ bpc' = [bpc EXCEPT ![c] = "done"]
       /\ outcome' = [outcome EXCEPT ![c] = Return(ClientValue(handle))]

\* callMCPTool / getMCPClient up to its first await
BInvoke(c) ==
  /\ bpc[c] = "idle"
  /\ \A d \in Callers : d < c => bpc[d] # "idle"
  /\ \E f \in {"callMCPTool", "getMCPClient"}, name \in BridgeNames :
       /\ fn' = [fn EXCEPT ![c] = f]
       /\ serverName' = [serverName EXCEPT ![c] = name]
       /\ IF name \in DOMAIN mcpClients
          THEN /\ client' = [client EXCEPT ![c] = ClientValue(mcpClients[name])]
               /\ IF f = "callMCPTool"
                  THEN /\ bpc' = [bpc EXCEPT ![c] = "callTool"]
                       /\ outcome' = outcome
                  ELSE /\ bpc' = [bpc EXCEPT ![c] = "done"]
                       /\ outcome' = [outcome EXCEPT
                                        ![c] = Return(ClientValue(mcpClients[name]))]
          ELSE /\ client' = client
               /\ bpc' = [bpc EXCEPT ![c] = "readFile"]
               /\ outcome' = outcome
  /\ UNCHANGED <<mcpClients, clients, response>>

\* config.mcpServers[serverName] is there, preceded by a variant that finds
\* a descriptor under every name
Configured_Mutant(name) == TRUE
Configured(name) == name \in Servers

\* loadMCPServerConfig returns, the transport and the Client are made and
\* client.connect(transport) starts
BLoadConfig(c) ==
  /\ bpc[c] = "readFile"
  /\ IF Configured(serverName[c])
     THEN /\ clients' = Append(clients,
                          [serverName |-> serverName[c],
                           transport |-> BridgeTransport(ServerType(serverName[c])),
                           state |-> "connecting",
                           owner |-> c])
          /\ bpc' = [bpc EXCEPT ![c] = "connect"]
          /\ outcome' = outcome
     ELSE /\ clients' = clients
          /\ bpc' = [bpc EXCEPT ![c] = "done"]
          /\ outcome' = [outcome EXCEPT ![c] = Rejected("not found in .mcp.json")]
  /\ UNCHANGED <<mcpClients, fn, serverName, client, response>>

\* the Client a caller is connecting
Connecting(c) ==
  CHOOSE h \in 1..Len(clients) :
    clients[h].owner = c /\ clients[h].state = "connecting"

\* client.connect resolves: the client is stored and used
BConnected(c) ==
  /\ bpc[c] = "connect"
  /\ LET h == Connecting(c)
     IN /\ clients' = [clients EXCEPT ![h].state = "connected"]
        /\ client' = [client EXCEPT ![c] = ClientValue(h)]
        /\ mcpClients' = MapSet(mcpClients, serverName[c], h)
        /\ AfterClient(c, h)
  /\ UNCHANGED <<fn, serverName, response>>

\* client.connect rejects, preceded by a variant that stores the client all
\* the same
BConnectFail_Mutant(c) ==
  /\ bpc[c] = "connect"
  /\ clients' = [clients EXCEPT ![Connecting(c)].state = "failed"]
  /\ mcpClients' = MapSet(mcpClients, serverName[c], Connecting(c))
  /\ bpc' = [bpc EXCEPT ![c] = "done"]
  /\ outcome' = [outcome EXCEPT ![c] = Rejected("connect")]
  /\ UNCHANGED <<fn, serverName, client, response>>
BConnectFail(c) ==
  /\ bpc[c] = "connect"
  /\ clients' = [clients EXCEPT ![Connecting(c)].state = "failed"]
  /\ bpc' = [bpc EXCEPT ![c] = "done"]
  /\ outcome' = [outcome EXCEPT ![c] = Rejected("connect")]
  /\ UNCHANGED <<mcpClients, fn, serverName, client, response>>

\* client.callTool resolves with a result, which is decoded
BCallResolve(c) ==
  /\ bpc[c] = "callTool"
  /\ \E r \in Responses :
       /\ response' = [response EXCEPT ![c] = r]
       /\ outcome' = [outcome EXCEPT ![c] = Return(DecodeResult(r))]
  /\ bpc' = [bpc EXCEPT ![c] = "done"]
  /\ UNCHANGED <<mcpClients, clients, fn, serverName, client>>

\* client.callTool rejects (a protocol error, a closed connection)
BCallReject(c) ==
  /\ bpc[c] = "callTool"
  /\ outcome' = [outcome EXCEPT ![c] = Rejected("callTool")]
  /\ bpc' = [bpc EXCEPT ![c] = "done"]
  /\ UNCHANGED <<mcpClients, clients, fn, serverName, client, response>>

----------------------------------------------------------------------------
(* The agent: agent.ts, with lib/workspace.ts and lib/metrics.ts *)

\* how many times the agent is started
MaxRuns == 2

Modes == {"code-execution", "direct-mcp"}

\* what a task can leave in ./workspace (.gitkeep is preserved and never
\* archived, so it is left out)
WorkNames == {"report.md", "data.json"}

VARIABLES
  apc,          \* where main() is
  mode,         \* parseArgs().mode
  run,          \* the number of this start of the agent
  workspace,    \* the entries of ./workspace, each with the run that wrote it
  archive,      \* the folders of ./workspace_archive with their entries
  logFiles,     \* the files of the session log directory
  status,       \* logger.log.status
  ensureCalls,  \* calls of ensureWrappers made by this run
  wrapperResult, \* wrapperResult.success of this run, "none" before the call
  queryStarted  \* query({ prompt: task, options }) has been called by this run

agentVars == <<apc, mode, run, workspace, archive, logFiles, status, ensureCalls,
               wrapperResult, queryStarted>>

\* `${mode}-${timestamp}`: the timestamp differs from run to run
SessionId(m, n) == <<m, n>>

FailedPrefix(s) == IF s = "error" THEN "FAILED__" ELSE ""

AgentInit ==
  /\ apc = "idle"
  /\ mode = "code-execution"
  /\ run = 0
  /\ workspace = {}
  /\ archive = {}
  /\ logFiles = {}
  /\ status = "success"
  /\ ensureCalls = 0
  /\ wrapperResult = "none"
  /\ queryStarted = FALSE

\* a start of the agent, up to and including clearWorkspace("./workspace")
AClearWorkspace ==
  /\ apc \in {"idle", "exited", "ended"}
  /\ run < MaxRuns
  /\ run' = run + 1
  /\ \E m \in Modes :
       /\ mode' = m
       /\ apc' = IF m = "code-execution" THEN "ensure" ELSE "options"
  /\ workspace' = {}
  /\ status' = "success"
  /\ ensureCalls' = 0
  /\ wrapperResult' = "none"
  /\ queryStarted' = FALSE
  /\ UNCHANGED <<archive, logFiles>>

\* process.exit(1) when wrapperResult.success is false
AfterEnsure_Mutant(success) == "options"
AfterEnsure(success) == IF success THEN "options" ELSE "exited"

\* await ensureWrappers({regenerate: true, ...}); its result is whatever the
\* call returns
AEnsureWrappers ==
  /\ apc = "ensure"
  /\ ensureCalls' = ensureCalls + 1
  /\ \E success \in BOOLEAN :
       /\ wrapperResult' = IF success THEN "success" ELSE "failure"
       /\ apc' = AfterEnsure(success)
  /\ UNCHANGED <<mode, run, workspace, archive, logFiles, status, queryStarted>>

\* buildOptions, new SessionLogger(mode), query({ prompt: task, options })
AQueryStart ==
  /\ apc = "options"
  /\ queryStarted' = TRUE
  /\ apc' = "query"
  /\ UNCHANGED <<mode, run, workspace, archive, logFiles, status, ensureCalls,
               wrapperResult>>

\* the message loop ends, with a result or by throwing; the task has written
\* into the workspace meanwhile
AQueryEnd ==
  /\ apc = "query"
  /\ \E written \in SUBSET WorkNames :
       workspace' = workspace \cup {[name |-> w, run |-> run] : w \in written}
  /\ \E err \in BOOLEAN : status' = IF err THEN "error" ELSE "success"
  /\ apc' = "finally"
  /\ UNCHANGED <<mode, run, archive, logFiles, ensureCalls, wrapperResult, queryStarted>>

\* finally: logger.save() writes <prefix><sessionId>.json and .md
ASave ==
  /\ apc = "finally"
  /\ logFiles' = logFiles \cup
       {[prefix |-> FailedPrefix(status), id |-> SessionId(mode, run), ext |-> e] :
          e \in {"json", "md"}}
  /\ apc' = "archive"
  /\ UNCHANGED <<mode, run, workspace, archive, status, ensureCalls, wrapperResult, queryStarted>>

\* archiveWorkspace(logger.getSessionId()): nothing to archive, or a folder
\* named by the session id holding the entries whose copy succeeded
AArchive ==
  /\ apc = "archive"
  /\ IF workspace = {}
       THEN archive' = archive
       ELSE \E copied \in SUBSET workspace :
              archive' = archive \cup
                {[dir |-> SessionId(mode, run), prefix |-> "", items |-> copied]}
  /\ apc' = "ended"
  /\ UNCHANGED <<mode, run, workspace, logFiles, status, ensureCalls, wrapperResult, queryStarted>>

----------------------------------------------------------------------------
(* Specification *)

wrapperVars == <<now, dirs, files, opc, options, result, gpc, gi, tools, ti,
                 instructions, startTime, allSuccess, hasFailures, exitCode, genOpen,
                 metaCatalog, pre, attempt, catalogSeen, introspected, ncalls, nticks,
                 nfaults, hung, ended, cut>>

vars == <<wrapperVars, bridgeVars, agentVars, mcpServers>>

\* the bindings a server can have before the first call: none, or those of
\* an earlier complete run at time 0 against InitCatalog
InitAny ==
  /\ mcpServers \in Configs
  /\ now = 0
  /\ dirs \in SUBSET Servers
  /\ files = [n \in Servers |->
                IF n \in dirs THEN CompleteDir(n, InitCatalog, 0) ELSE EmptyDir]
  /\ opc = "idle"
  /\ options = [regenerate |-> "undefined"]
  /\ result = EmptyResult
  /\ NoChild
  /\ metaCatalog = [n \in Servers |-> IF n \in dirs THEN InitCatalog ELSE <<>>]
  /\ pre = [dirs |-> dirs, files |-> files]
  /\ attempt = NoAttempt
  /\ catalogSeen = NoCatalog
  /\ introspected = 0
  /\ ncalls = 0
  /\ nticks = 0
  /\ nfaults = 0
  /\ hung = FALSE
  /\ ended = "none"
  /\ cut = {}
  /\ BridgeInit
  /\ AgentInit

\* every descriptor of .mcp.json declares its type
Init == InitAny /\ \A n \in Servers : mcpServers[n] # "undefined"

Next ==
  \/ EnsureStart /\ UNCHANGED <<bridgeVars, agentVars, mcpServers>>
  \/ GenMain /\ UNCHANGED <<bridgeVars, agentVars, mcpServers>>
  \/ GenHost /\ UNCHANGED <<bridgeVars, agentVars, mcpServers>>
  \/ GenConnect /\ UNCHANGED <<bridgeVars, agentVars, mcpServers>>
  \/ GenListTools /\ UNCHANGED <<bridgeVars, agentVars, mcpServers>>
  \/ GenMkdir /\ UNCHANGED <<bridgeVars, agentVars, mcpServers>>
  \/ GenWriteReadme /\ UNCHANGED <<bridgeVars, agentVars, mcpServers>>
  \/ GenWriteStub /\ UNCHANGED <<bridgeVars, agentVars, mcpServers>>
  \/ GenWriteIndex /\ UNCHANGED <<bridgeVars, agentVars, mcpServers>>
  \/ GenWriteMetadata /\ UNCHANGED <<bridgeVars, agentVars, mcpServers>>
  \/ GenClose /\ UNCHANGED <<bridgeVars, agentVars, mcpServers>>
  \/ GenHang /\ UNCHANGED <<bridgeVars, agentVars, mcpServers>>
  \/ GenTimeout /\ UNCHANGED <<bridgeVars, agentVars, mcpServers>>
  \/ GenEnd /\ UNCHANGED <<bridgeVars, agentVars, mcpServers>>
  \/ GenExit /\ UNCHANGED <<bridgeVars, agentVars, mcpServers>>
  \/ OrchClose /\ UNCHANGED <<bridgeVars, agentVars, mcpServers>>
  \/ OrchTimeout /\ UNCHANGED <<bridgeVars, agentVars, mcpServers>>
  \/ OrchSpawnError /\ UNCHANGED <<bridgeVars, agentVars, mcpServers>>
  \/ EnsureReturn /\ UNCHANGED <<bridgeVars, agentVars, mcpServers>>
  \/ Tick /\ UNCHANGED <<bridgeVars, agentVars, mcpServers>>

\* the wrapper scripts: ensure-wrappers.ts and the generator it spawns
Spec == Init /\ [][Next]_vars

NextBridge ==
  \/ \E c \in Callers : BInvoke(c) /\ UNCHANGED <<wrapperVars, agentVars, mcpServers>>
  \/ \E c \in Callers : BLoadConfig(c) /\ UNCHANGED <<wrapperVars, agentVars, mcpServers>>
  \/ \E c \in Callers : BConnected(c) /\ UNCHANGED <<wrapperVars, agentVars, mcpServers>>
  \/ \E c \in Callers : BConnectFail(c) /\ UNCHANGED <<wrapperVars, agentVars, mcpServers>>
  \/ \E c \in Callers : BCallResolve(c) /\ UNCHANGED <<wrapperVars, agentVars, mcpServers>>
  \/ \E c \in Callers : BCallReject(c) /\ UNCHANGED <<wrapperVars, agentVars, mcpServers>>

\* the bridge at run time, both servers having their bindings
InitBridge == InitAny /\ dirs = Servers

SpecBridge == InitBridge /\ [][NextBridge]_vars

\* the bridge with what its own code guarantees to happen: the read of
\* .mcp.json completes. Nothing in client.js makes a pending connect or
\* callTool settle; that is left to the remote server.
SpecBridgeFair ==
  SpecBridge /\ \A c \in Callers : WF_vars(BLoadConfig(c) /\ UNCHANGED <<wrapperVars, agentVars, mcpServers>>)

NextAgent ==
  \/ AClearWorkspace /\ UNCHANGED <<wrapperVars, bridgeVars, mcpServers>>
  \/ AEnsureWrappers /\ UNCHANGED <<wrapperVars, bridgeVars, mcpServers>>
  \/ AQueryStart /\ UNCHANGED <<wrapperVars, bridgeVars, mcpServers>>
  \/ AQueryEnd /\ UNCHANGED <<wrapperVars, bridgeVars, mcpServers>>
  \/ ASave /\ UNCHANGED <<wrapperVars, bridgeVars, mcpServers>>
  \/ AArchive /\ UNCHANGED <<wrapperVars, bridgeVars, mcpServers>>

\* the agent, started again and again on the same working directory
SpecAgent == InitBridge /\ [][NextAgent]_vars

----------------------------------------------------------------------------
(* What the claims speak about *)

Range(seq) == {seq[i] : i \in 1..Len(seq)}

\* the per-tool stubs, the manifest and the metadata record of a listing
BindingFiles(dir) == {f \in DOMAIN dir : EndsWithTs(f) \/ f = METADATA_JSON}
StubFiles(dir) == {f \in DOMAIN dir : EndsWithTs(f) /\ f # INDEX_TS}

\* the server had usable bindings (manifest and stubs) when the call started
HadBindings(n) ==
  /\ n \in pre.dirs
  /\ INDEX_TS \in DOMAIN pre.files[n]
  /\ StubFiles(pre.files[n]) # {}

\* the server had no binding file at all when the call started
NoPriorBindings(n) == BindingFiles(pre.files[n]) = {}

\* the bindings are on disk now
ReadyOnDisk(n) ==
  /\ n \in dirs
  /\ INDEX_TS \in DOMAIN files[n]
  /\ StubFiles(files[n]) # {}

\* the entry of the returned result for server n
Reported(n) == {st \in Range(result.servers) : st.serverName = n}
ReportedReady(n) == \E st \in Reported(n) : st.exists

\* the servers the errors of the result name
ErrorNames ==
  UNION {Range(e.servers) : e \in {x \in Range(result.errors) : x.kind # "config"}}

\* the result says the run fell back to the bindings on disk
ReportedDegraded == CachedWarning \in Range(result.warnings)

\* C1: a server that had bindings and whose regeneration attempt threw has
\* every binding file it had before the call, with the same bytes, when
\* ensureWrappers returns.
C1_FailedAttemptLeavesBindings ==
  opc = "returned" =>
    \A n \in Servers :
      (HadBindings(n) /\ attempt[n] = "failed") =>
        \A f \in BindingFiles(pre.files[n]) :
          /\ f \in DOMAIN files[n]
          /\ files[n][f].bytes = pre.files[n][f].bytes

\* the Clients made for server h whose channel is opening or open
Channels(h) ==
  {i \in 1..Len(clients) : clients[i].serverName = h /\ clients[i].state # "failed"}

\* C2: the invocations for one server name open one transport channel among
\* them (a channel that failed to open aside) and those that have a client
\* have the same one; a server name never has two live clients.
C2_OneChannelPerHost ==
  /\ \A h \in Servers : Cardinality(Channels(h)) <= 1
  /\ \A c, d \in Callers :
       (serverName[c] = serverName[d] /\ client[c] # Unassigned /\ client[d] # Unassigned)
         => client[c] = client[d]

\* C3: a server without prior bindings whose attempt went through has, when
\* ensureWrappers returns, one stub per tool of the catalog listed, the
\* manifest and the metadata record, and is reported ready, not degraded.
C3_FreshGenerationComplete ==
  opc = "returned" =>
    \A n \in Servers :
      (NoPriorBindings(n) /\ attempt[n] = "ok") =>
        /\ n \in dirs
        /\ StubFiles(files[n]) = {FileName(t) : t \in Range(catalogSeen[n])}
        /\ Cardinality(StubFiles(files[n])) = Len(catalogSeen[n])
        /\ INDEX_TS \in DOMAIN files[n]
        /\ METADATA_JSON \in DOMAIN files[n]
        /\ ReportedReady(n)
        /\ ~ReportedDegraded

\* C4: a server without prior bindings whose attempt threw: ensureWrappers
\* returns success = false, reports it not ready and names it in errors.
C4_MissingAndFailedIsError ==
  opc = "returned" =>
    \A n \in Servers :
      (NoPriorBindings(n) /\ attempt[n] = "failed") =>
        /\ ~result.success
        /\ ~ReportedReady(n)
        /\ n \in ErrorNames

\* C5: a server with bindings on disk whose regeneration attempt threw is
\* reported ready and degraded: the result warns that regeneration failed and
\* the cached bindings are used, and no error names the server.
C5_FailedWithBindingsIsDegraded ==
  opc = "returned" =>
    \A n \in Servers :
      (HadBindings(n) /\ attempt[n] = "failed") =>
        /\ ReportedReady(n)
        /\ ReportedDegraded
        /\ n \notin ErrorNames

\* C6: success = true only if every configured server has bindings on disk
\* when ensureWrappers returns; a server that fell back to its bindings is
\* in no error; and with bindings present for every server at the start the
\* call does not fail, however old they are.
C6_SuccessMeansAllReady ==
  opc = "returned" =>
    /\ result.success => \A n \in Servers : ReadyOnDisk(n)
    /\ \A n \in Servers : (HadBindings(n) /\ attempt[n] # "none") => n \notin ErrorNames
    /\ (ConfigError \notin Range(result.errors) /\ \A n \in Servers : HadBindings(n))
         => result.success

\* fresh at the start of the call: bindings present, metadata age known and
\* within the threshold (the clock stands still during a call)
FreshAtStart(n) ==
  /\ HadBindings(n)
  /\ METADATA_JSON \in DOMAIN pre.files[n]
  /\ now - pre.files[n][METADATA_JSON].bytes.generatedAt <= STALE_THRESHOLD_MS

\* C7: a call that finds every server fresh and is not told to force
\* regeneration starts no generation run and makes no introspection request.
C7_FreshUnforcedSkipsGeneration ==
  (opc # "idle" /\ options.regenerate # "true" /\ \A n \in Servers : FreshAtStart(n))
    => /\ opc = "returned"
       /\ gpc = "none"
       /\ ~result.regenerated
       /\ introspected = 0
       /\ files = pre.files

\* a second call finds the fresh bindings a first call generated (tool x in
\* its changed version can only come from a run) and skips generation
C7_Witness ==
  /\ ncalls = 2 /\ opc = "returned" /\ options.regenerate # "true"
  /\ \A n \in Servers : FreshAtStart(n)
  /\ pre.files["a"][<<"x", ".ts">>].bytes.ver = 2
  /\ ~result.regenerated

\* the bindings the metadata record of server n stands for: those of the
\* catalog of the run that wrote it
MetadataDescribesDisk(n) ==
  /\ StubFiles(files[n]) = {FileName(t) : t \in Range(metaCatalog[n])}
  /\ \A t \in Range(metaCatalog[n]) :
       files[n][FileName(t)].bytes = StubBytes(n, t)
  /\ INDEX_TS \in DOMAIN files[n]
  /\ files[n][INDEX_TS].bytes = IndexBytes(metaCatalog[n])

\* C8: whenever no run is in progress, a metadata record on disk describes
\* the binding set on disk: the stubs and the manifest are those of the run
\* that wrote the record.
C8_MetadataMatchesBindings ==
  gpc = "none" =>
    \A n \in Servers :
      (n \in dirs /\ METADATA_JSON \in DOMAIN files[n]) => MetadataDescribesDisk(n)

\* the invocations of callMCPTool that callTool has answered
Answered == {c \in Callers : fn[c] = "callMCPTool" /\ response[c] # NoResponse}

\* the first content item of a result carries text that is not empty
CarriesText(r) ==
  /\ "content" \in DOMAIN r
  /\ r.content # <<>>
  /\ "text" \in DOMAIN r.content[1]
  /\ r.content[1].text # <<>>

\* C9: callMCPTool returns the parsed value when the first content item
\* carries text that parses as JSON, the text itself when it does not parse,
\* and the result object as it came in every other case; the text {"a":1}
\* gives the object with member a = 1 and the text not json gives that string.
C9_DecodeOrder ==
  \A c \in Answered :
    LET r == response[c]
    IN /\ outcome[c].kind = "return"
       /\ (CarriesText(r) /\ JSONParse(r.content[1].text).ok)
            => outcome[c].value = JSONParse(r.content[1].text).v
       /\ (CarriesText(r) /\ ~JSONParse(r.content[1].text).ok)
            => outcome[c].value = JStr(r.content[1].text)
       /\ ~CarriesText(r) => outcome[c].value = Envelope(r)
       /\ r = [content |-> <<TextItem(TextObject)>>]
            => outcome[c].value = JObj(<<<<<<"a">>, JNum(1)>>>>)
       /\ r = [content |-> <<TextItem(TextPlain)>>]
            => outcome[c].value = JStr(TextPlain)

\* one invocation got the parsed object and another the raw text
C9_Witness ==
  \E c, d \in Answered :
    /\ response[c] = [content |-> <<TextItem(TextObject)>>]
    /\ outcome[c] = Return(JObj(<<<<<<"a">>, JNum(1)>>>>))
    /\ response[d] = [content |-> <<TextItem(TextPlain)>>]
    /\ outcome[d] = Return(JStr(TextPlain))

\* the result carries the tool's error
IsErrorPayload(r) == "isError" \in DOMAIN r /\ r.isError

\* C10: an invocation of callMCPTool that the server answered with an error
\* payload throws; the payload is not its return value.
C10_ErrorPayloadThrows ==
  \A c \in Answered : IsErrorPayload(response[c]) => outcome[c].kind = "throw"

\* C11: a run that the orchestrator's timer ended gives the result of a
\* failed generation: every server that had bindings is reported ready with
\* the warning that the cached bindings are used and is in no error, and for
\* every server that had none success is false, it is reported not ready and
\* an error names it.
C11_TimeoutIsGenerationFailure ==
  (opc = "returned" /\ ended = "timeout") =>
    \A n \in Servers :
      /\ HadBindings(n) =>
           /\ ReportedReady(n)
           /\ ReportedDegraded
           /\ n \notin ErrorNames
      /\ ~HadBindings(n) =>
           /\ ~result.success
           /\ ~ReportedReady(n)
           /\ n \in ErrorNames

\* the stubs, the manifest and the metadata record of a listing
BindingSet(dir) == [f \in BindingFiles(dir) |-> dir[f].bytes]

\* the complete set of a run of server n against the catalog it listed
CompleteNew(n) ==
  /\ n \in dirs
  /\ StubFiles(files[n]) = {FileName(t) : t \in Range(catalogSeen[n])}
  /\ \A t \in Range(catalogSeen[n]) : files[n][FileName(t)].bytes = StubBytes(n, t)
  /\ INDEX_TS \in DOMAIN files[n]
  /\ files[n][INDEX_TS].bytes = IndexBytes(catalogSeen[n])
  /\ METADATA_JSON \in DOMAIN files[n]
  /\ metaCatalog[n] = catalogSeen[n]

\* the metadata record of server n is the one the call found, if any
MetadataUntouched(n) ==
  IF METADATA_JSON \in DOMAIN pre.files[n]
  THEN /\ METADATA_JSON \in DOMAIN files[n]
       /\ files[n][METADATA_JSON] = pre.files[n][METADATA_JSON]
  ELSE METADATA_JSON \notin DOMAIN files[n]

\* C12: a server whose attempt a timeout ended (withTimeout's timer in the
\* generator, or the orchestrator's timer) has, when ensureWrappers returns,
\* no metadata record written by that attempt, and its binding set is either
\* the one it had before the call or the complete set of the attempt.
C12_TimeoutIsAllOrNothing ==
  opc = "returned" =>
    \A n \in cut :
      /\ MetadataUntouched(n)
      /\ BindingSet(files[n]) = BindingSet(pre.files[n]) \/ CompleteNew(n)

\* C13: in the generator's loop every server before the current one has had
\* its attempt, whatever the outcome of the others, and when the loop is over
\* every configured server has had its attempt.
C13_EveryServerAttempted ==
  (opc = "generating" /\ gpc \in {"host", "ending", "exited"} /\ gi > 1) =>
    /\ \A i \in 1..Len(ServerNames) :
         i < gi => attempt[ServerNames[i]] \in {"ok", "failed"}
    /\ gpc \in {"ending", "exited"} =>
         \A n \in Servers : attempt[n] \in {"ok", "failed"}

\* the first server's attempt failed and the second one's went through
C13_Witness ==
  /\ opc = "generating" /\ gpc \in {"ending", "exited"}
  /\ attempt[ServerNames[1]] = "failed"
  /\ attempt[ServerNames[2]] = "ok"
  /\ ReadyOnDisk(ServerNames[2])

\* the manifest or the metadata record of server n was absent when the call
\* started
MissingAtStart(n) ==
  \/ n \notin pre.dirs
  \/ INDEX_TS \notin DOMAIN pre.files[n]
  \/ METADATA_JSON \notin DOMAIN pre.files[n]

\* the metadata record of server n was older than the threshold when the call
\* started
StaleAtStart(n) ==
  /\ n \in pre.dirs
  /\ METADATA_JSON \in DOMAIN pre.files[n]
  /\ now - pre.files[n][METADATA_JSON].bytes.generatedAt > STALE_THRESHOLD_MS

\* C14: a call that could read the configuration and is not told to leave
\* generation out starts a generation run when some server lacks its manifest
\* or its metadata record, or has a metadata record older than the threshold,
\* or when regeneration is forced.
C14_MissingOrStaleIsGenerated ==
  (/\ opc # "idle"
   /\ options.regenerate # "false"
   /\ ConfigError \notin Range(result.errors)
   /\ \/ options.regenerate = "true"
      \/ \E n \in Servers : MissingAtStart(n) \/ StaleAtStart(n))
    => (opc = "generating" \/ result.regenerated)

\* C15: an entry of mcpClients is never removed and never replaced by
\* another client.
C15_CacheEntryIsKept ==
  [][\A n \in DOMAIN mcpClients :
       n \in DOMAIN mcpClients' /\ mcpClients'[n] = mcpClients[n]]_vars

\* C16: an invocation that waits for the channel to open or for the remote
\* call comes to an end, with a result or an error, whatever the server does.
C16_BridgeAwaitsEnd ==
  \A c \in Callers : (bpc[c] \in {"connect", "callTool"}) ~> (bpc[c] = "done")

\* C17: whenever an awaited step of a server's attempt does not settle, it
\* is a step that withTimeout guards, so that the timer ends the attempt with
\* its timeout error.
C17_EveryAwaitIsTimed ==
  (opc = "generating" /\ hung) => UnderTimeout(gpc)

\* the invocations made with a server name that is not in .mcp.json
Unknown == {c \in Callers : fn[c] # "none" /\ ~(serverName[c] \in Servers)}

\* C18: an invocation for a server name that is not in .mcp.json never waits
\* for a channel or a remote call, ends by throwing the configuration error,
\* and no client is made or cached under that name.
C18_UnknownServerFails ==
  /\ \A c \in Unknown :
       /\ bpc[c] \in {"readFile", "done"}
       /\ bpc[c] = "done" => outcome[c] = Rejected("not found in .mcp.json")
       /\ client[c] = Unassigned
       /\ response[c] = NoResponse
  /\ \A n \in DOMAIN mcpClients : n \in Servers
  /\ \A i \in 1..Len(clients) : clients[i].serverName \in Servers

\* callMCPTool for the unknown name has thrown, after another invocation had
\* cached a client, and the cache is as it was
C18_Witness ==
  \E c \in Unknown, d \in Callers :
    /\ fn[c] = "callMCPTool" /\ bpc[c] = "done"
    /\ outcome[c] = Rejected("not found in .mcp.json")
    /\ d < c /\ serverName[d] \in DOMAIN mcpClients
    /\ DOMAIN mcpClients = {serverName[d]}

\* a step writes file f of server n: the file appears or its content changes
Written(n, f) ==
  /\ f \in DOMAIN files'[n]
  /\ f \notin DOMAIN files[n] \/ files'[n][f] # files[n][f]

\* every tool of the catalog of the current attempt has its stub on disk
StubsOfRun(n) ==
  \A i \in 1..Len(tools) :
    /\ FileName(tools[i]) \in DOMAIN files[n]
    /\ \E j \in 1..Len(tools) :
         /\ FileName(tools[j]) = FileName(tools[i])
         /\ files[n][FileName(tools[i])].bytes = StubBytes(n, tools[j])

\* the manifest of the catalog of the current attempt is on disk
IndexOfRun(n) ==
  /\ INDEX_TS \in DOMAIN files[n]
  /\ files[n][INDEX_TS].bytes = IndexBytes(tools)

\* C19: a step that writes a server's index.ts finds every stub of the
\* attempt's catalog on disk, and a step that writes its .metadata.json finds
\* every stub and the index.ts of the attempt on disk.
C19_WriteOrder ==
  [][\A n \in Servers :
       /\ Written(n, INDEX_TS) => (n = CurrentServer /\ StubsOfRun(n))
       /\ Written(n, METADATA_JSON) =>
            (n = CurrentServer /\ StubsOfRun(n) /\ IndexOfRun(n))]_vars

\* an attempt that started from nothing has written two stubs, the manifest
\* and the metadata record
C19_Witness ==
  /\ opc = "generating" /\ gpc = "close"
  /\ NoPriorBindings(CurrentServer)
  /\ Len(tools) = 2
  /\ StubsOfRun(CurrentServer) /\ IndexOfRun(CurrentServer)
  /\ METADATA_JSON \in DOMAIN files[CurrentServer]

\* C20: a call with the options agent.ts passes at startup, finding the bindings of every
\* server present and within the staleness threshold, starts no generation
\* run.
C20_AgentStartupSkipsFresh ==
  (options = AgentOptions /\ opc # "idle" /\ \A n \in Servers : FreshAtStart(n))
    => (opc = "returned" /\ ~result.regenerated)


\* C21: in code-execution mode a run calls ensureWrappers exactly once, and
\* before the task query starts; when the call returned success = false the
\* run has exited and its task query is never started
C21_EnsureOnceBeforeQuery ==
  mode = "code-execution" =>
    /\ ensureCalls <= 1
    /\ queryStarted => ensureCalls = 1 /\ wrapperResult = "success"
    /\ wrapperResult = "failure" => apc = "exited" /\ ~queryStarted
    /\ apc \in {"options", "query", "finally", "archive", "ended"} => ensureCalls = 1

\* a code-execution run whose wrappers were ensured is in its task query, and
\* an earlier start of the agent had exited on success = false
C21_Witness ==
  /\ mode = "code-execution"
  /\ run = 2
  /\ queryStarted
  /\ ensureCalls = 1
  /\ logFiles = {}

\* C22: a run that failed with an error has the FAILED__ prefix on its saved
\* session log files and on its folder in workspace_archive; a run without
\* error has it on neither
C22_FailedPrefixEverywhere ==
  apc = "ended" =>
    /\ \A f \in logFiles :
         f.id = SessionId(mode, run) => f.prefix = FailedPrefix(status)
    /\ \A d \in archive :
         d.dir = SessionId(mode, run) => d.prefix = FailedPrefix(status)

\* C23: nothing leaves the workspace before it is in workspace_archive, and
\* the workspace is cleared before the wrappers are ensured and before the
\* task starts
C23_ArchivedBeforeCleared ==
  [][/\ \A e \in workspace \ workspace' : \E d \in archive : e \in d.items
     /\ ensureCalls' > ensureCalls => workspace = {}
     /\ queryStarted' /\ ~queryStarted => workspace = {}]_vars

\* C24: when a generation run ended by itself and every attempt of it
\* succeeded, a server's stub
\* files are exactly those of the catalog the run listed: the stub of a tool
\* no longer offered is gone, and the reported toolCount counts the listed
\* tools only
C24_RegenerationReplacesWholesale ==
  (opc = "returned" /\ ended = "close" /\ \A m \in Servers : attempt[m] = "ok") =>
    \A n \in Servers :
      /\ StubFiles(files[n]) = {FileName(t) : t \in Range(catalogSeen[n])}
      /\ \A st \in Reported(n) :
           st.toolCount = Cardinality({FileName(t) : t \in Range(catalogSeen[n])})

\* C25: a run that ended by itself, in which a server without prior bindings
\* was generated (its catalog not empty) and another server without prior
\* bindings failed: the errors of the result name the failed server only, and
\* the generated one is reported ready with the tool count now on disk
C25_PartialSuccessPerHost ==
  opc = "returned" /\ ended = "close" =>
    \A n, m \in Servers :
      (/\ NoPriorBindings(n) /\ attempt[n] = "ok" /\ catalogSeen[n] # <<>>
       /\ NoPriorBindings(m) /\ attempt[m] = "failed") =>
        /\ ErrorNames = {m}
        /\ ReportedReady(n)
        /\ \A st \in Reported(n) : st.toolCount = Cardinality(StubFiles(files[n]))

\* C26: tools of one catalog whose names are alike behind the last "__" are
\* not de-duplicated: once the attempt has written index.ts, the one stub
\* file they share holds the stub of the last of them in the catalog, and
\* index.ts has one re-export line for every tool of the catalog, in order
C26_SameShortNameLastWriteWins ==
  (opc = "generating" /\ gpc \in {"metadata", "close"}) =>
    /\ \A i \in 1..Len(tools) :
         LET same == {j \in 1..Len(tools) : FileName(tools[j]) = FileName(tools[i])}
         IN /\ FileName(tools[i]) \in DOMAIN files[CurrentServer]
            /\ files[CurrentServer][FileName(tools[i])].bytes
                 = StubBytes(CurrentServer, tools[Max(same)])
    /\ Len(files[CurrentServer][INDEX_TS].bytes.exports) = Len(tools)
    /\ \A i \in 1..Len(tools) :
         files[CurrentServer][INDEX_TS].bytes.exports[i] = ShortName(tools[i].name)

\* an attempt has written its files for a catalog in which two different
\* tools share one stub file
C26_Witness ==
  /\ opc = "generating" /\ gpc = "close"
  /\ \E i, j \in 1..Len(tools) :
       /\ i < j
       /\ tools[i].name # tools[j].name
       /\ FileName(tools[i]) = FileName(tools[j])
       /\ files[CurrentServer][FileName(tools[i])].bytes.tool = tools[j].name
  /\ Len(files[CurrentServer][INDEX_TS].bytes.exports) = 2

\* C27: an invocation of callMCPTool whose connect rejected has failed with
\* that error, has made one Client and one connect only, and its client is
\* not in mcpClients; every client in mcpClients has completed its connect
C27_FailedConnectIsNotCached ==
  /\ \A h \in 1..Len(clients) :
       (clients[h].state = "failed" /\ fn[clients[h].owner] = "callMCPTool") =>
         /\ bpc[clients[h].owner] = "done"
         /\ outcome[clients[h].owner] = Rejected("connect")
         /\ response[clients[h].owner] = NoResponse
         /\ Cardinality({i \in 1..Len(clients) : clients[i].owner = clients[h].owner}) = 1
         /\ \A n \in DOMAIN mcpClients : mcpClients[n] # h
  /\ \A n \in DOMAIN mcpClients : clients[mcpClients[n]].state = "connected"

\* a callMCPTool whose connect rejected, and a later invocation for the same
\* server whose own connect completed and is cached
C27_Witness ==
  \E h, k \in 1..Len(clients) :
    /\ clients[h].state = "failed"
    /\ fn[clients[h].owner] = "callMCPTool"
    /\ clients[k].serverName = clients[h].serverName
    /\ clients[k].state = "connected"
    /\ clients[h].serverName \in DOMAIN mcpClients
    /\ mcpClients[clients[h].serverName] = k

\* C28: for every server descriptor the generator's createTransport and the
\* bridge's connectToMCPServer select the same transport variant, or both
\* reject the descriptor
C28_SameTransportSelection ==
  \A h \in 1..Len(clients) :
    createTransport(ServerType(clients[h].serverName)) = clients[h].transport

\* C29: while the generator runs, a server whose attempt has ended, with
\* success or with an error, has no open client of the generator: the
\* channel opened for it was closed before the loop went on
C29_ChannelClosedWithAttempt ==
  (opc = "generating" /\ gpc # "none") =>
    \A n \in Servers : attempt[n] \in {"ok", "failed"} => n \notin genOpen

\* C30: a call with regenerate = false starts no generation run and leaves
\* the disk as it found it; having read the configuration, it returns
\* success = false with an error naming the servers without usable bindings
\* when there are such, and success = true without error otherwise, stale
\* servers included
C30_RegenerateFalseNeverGenerates ==
  (options.regenerate = "false" /\ opc # "idle") =>
    /\ opc = "returned" /\ gpc = "none" /\ ~result.regenerated
    /\ dirs = pre.dirs /\ files = pre.files
    /\ ConfigError \notin Range(result.errors) =>
         IF \E n \in Servers : ~HadBindings(n)
         THEN /\ ~result.success
              /\ ErrorNames = {n \in Servers : ~HadBindings(n)}
         ELSE /\ result.success
              /\ result.errors = <<>>

\* a call with regenerate = false has returned success = true although a
\* server's bindings are older than the threshold
C30_Witness ==
  /\ options.regenerate = "false" /\ opc = "returned"
  /\ \A n \in Servers : HadBindings(n)
  /\ \E n \in Servers : StaleAtStart(n)
  /\ result.success
  /\ result.warnings # <<>>

====
